---- MODULE Spec2Model ----
(***************************************************************************)
(* The request execution pipeline of the Python SDK client                 *)
(* (docusign_alternative_sdk/client.py): client construction, the          *)
(* transport session with its retry adapter, request(), and the auth       *)
(* mutation operations set_auth_token / clear_auth.                        *)
(*                                                                         *)
(* A caller thread runs one public method at a time.  The steps of a       *)
(* method are the places where CPython may switch threads.  Spec has one   *)
(* caller (a sequential program); SpecConc has several callers sharing     *)
(* the client.                                                             *)
(***************************************************************************)
EXTENDS Integers, Sequences, FiniteSets, TLC

VARIABLES
    rawConfig,      \* the configuration handed to __init__
    clientState,    \* "new" | "ready" | "failed" (__init__ raised)
    ctorError,      \* the error __init__ raised, or None
    config,         \* self.config
    sessionHeaders, \* self.session.headers: an ordered, case-insensitive dict
    retryTotal,     \* Retry.total of the mounted adapter
    services,       \* the service facades bound to the client
    pc,             \* per caller: where it is in its current method
    call,           \* per caller: the arguments of the current method
    iter,           \* per caller: the iterator over session.headers during the merge
    fullUrl,        \* per caller: full_url of the current request (line 138)
    sent,           \* per caller: the header set of the dispatched request
    remaining,      \* per caller: Retry.total left for the current request
    history,        \* per caller: the outcome of every transport attempt so far
    response,       \* per caller: the response session.request returned (line 151)
    transportError, \* per caller: the requests exception session.request raised
    result,         \* per caller: how the current method ended
    lastMutation    \* the auth mutation that completed last

vars == <<rawConfig, clientState, ctorError, config, sessionHeaders, retryTotal,
          services, pc, call, iter, fullUrl, sent, remaining, history, response,
          transportError, result, lastMutation>>

clientVars == <<rawConfig, clientState, ctorError, config, sessionHeaders,
                retryTotal, services>>

\* The locals of request() that hold what session.request produced.
locals == <<response, transportError>>

------------------------------------------------------------------------------
(* Bounds of the model *)

\* The largest configured retry count (config.retries) the model draws.
MaxRetries == 2

\* The largest number of '/' at the end of a base URL and at the start of a path.
MaxSlashes == 2

------------------------------------------------------------------------------
(* Python values *)

None == "<None>"

\* Python truthiness of an Optional[str]: None and "" are falsy.
Truthy(v) == v # None /\ v # ""

(* str, where its characters matter (URLs): a sequence of pieces, each "/"   *)
(* or a run of characters without a slash.                                  *)
Slashes(n) == [i \in 1..n |-> "/"]

RECURSIVE RStrip(_)
RECURSIVE LStrip(_)

\* A strip that takes one trailing '/' at most.
RStripOne(s) ==
    IF s # <<>> /\ s[Len(s)] = "/" THEN SubSeq(s, 1, Len(s) - 1) ELSE s

\* str.rstrip('/')
RStrip(s) ==
    IF s # <<>> /\ s[Len(s)] = "/" THEN RStrip(SubSeq(s, 1, Len(s) - 1)) ELSE s

\* str.lstrip('/')
LStrip(s) ==
    IF s # <<>> /\ s[1] = "/" THEN LStrip(Tail(s)) ELSE s

\* config.base_url is a str or None.
NoUrl == [present |-> FALSE, text |-> <<>>]
Url(text) == [present |-> TRUE, text |-> text]

\* Truthiness of an Optional[str] URL: None and "" are falsy.
TruthyUrl(u) == u.present /\ u.text # <<>>

Https(host) == <<"https:", "/", "/", host>>

\* config.jwt is an object with a token field, or None.
NoJwt == [present |-> FALSE, token |-> None]
Jwt(tok) == [present |-> TRUE, token |-> tok]

(* dict: a function from keys to values *)
EmptyDict == [k \in {} |-> None]

DictUpdate(d, e) ==
    [k \in DOMAIN d \cup DOMAIN e |-> IF k \in DOMAIN e THEN e[k] ELSE d[k]]

DictDel(d, key) == [k \in DOMAIN d \ {key} |-> d[k]]

\* str.lower() on the header names the model uses.
Lower(k) ==
    CASE k = "Content-Type" -> "content-type"
      [] k = "User-Agent" -> "user-agent"
      [] k = "Accept" -> "accept"
      [] k = "Authorization" -> "authorization"
      [] k = "X-Trace" -> "x-trace"
      [] OTHER -> k

(* requests.structures.CaseInsensitiveDict over an OrderedDict: a sequence  *)
(* of entries in insertion order, keyed by the lower-cased name.            *)
NoSession == <<>>

CIKeys(d) == {d[i].key : i \in 1..Len(d)}

CIHas(d, name) == Lower(name) \in CIKeys(d)

CIGet(d, name) == d[CHOOSE i \in 1..Len(d) : d[i].key = Lower(name)].value

\* __setitem__: an existing key keeps its place, a new key goes last.
CISet(d, name, v) ==
    IF CIHas(d, name)
    THEN [i \in 1..Len(d) |->
            IF d[i].key = Lower(name) THEN [key |-> Lower(name), value |-> v] ELSE d[i]]
    ELSE Append(d, [key |-> Lower(name), value |-> v])

\* A __delitem__ that leaves the entry in place.
CIDelKeeps(d, name) == d

\* __delitem__ of a key that is present.
CIDel(d, name) == SelectSeq(d, LAMBDA e : e.key # Lower(name))

\* f"Bearer {token}"
Bearer(token) == "Bearer " \o token

------------------------------------------------------------------------------
(* Construction: __init__, _validate_config, _create_session *)

DefaultBaseUrl(environment) ==
    CASE environment = "development" -> Url(Https("api-dev.docusign-alternative.com"))
      [] environment = "staging" -> Url(Https("api-staging.docusign-alternative.com"))
      [] OTHER -> Url(Https("api.docusign-alternative.com"))

\* A check that looks at the API key alone.
NoCredentialApiKeyOnly(c) == ~Truthy(c.api_key)

\* Line 64: no credential form is present.
NoCredential(c) == ~Truthy(c.api_key) /\ ~Truthy(c.oauth) /\ ~c.jwt.present

\* A validation that never raises.
ValidateConfigErrorNever(c) == None

\* _validate_config: the error raised, or None.
ValidateConfigError(c) ==
    IF NoCredential(c) THEN "ConfigurationError" ELSE None

\* _validate_config: the normalised configuration it returns.
ValidateConfig(c) ==
    IF ~TruthyUrl(c.base_url)
    THEN [c EXCEPT !.base_url = DefaultBaseUrl(c.environment)]
    ELSE c

DefaultHeaders ==
    << [key |-> "content-type", value |-> "application/json"],
       [key |-> "user-agent", value |-> "DocuSignAlternative-Python-SDK/1.0.0"],
       [key |-> "accept", value |-> "application/json"] >>

\* _create_session: the session's default headers.
CreateSessionHeaders(c) ==
    IF Truthy(c.api_key)
    THEN CISet(DefaultHeaders, "Authorization", Bearer(c.api_key))
    ELSE IF c.jwt.present /\ Truthy(c.jwt.token)
    THEN CISet(DefaultHeaders, "Authorization", Bearer(c.jwt.token))
    ELSE DefaultHeaders

ServiceNames ==
    {"documents", "templates", "signing", "organizations", "users",
     "webhooks", "analytics", "auth", "events"}

NoConfig ==
    [api_key |-> None, oauth |-> None, jwt |-> NoJwt, base_url |-> NoUrl,
     environment |-> None, retries |-> 0]

\* __init__
Construct ==
    /\ clientState = "new"
    /\ IF ValidateConfigError(rawConfig) # None
       THEN /\ clientState' = "failed"
            /\ ctorError' = ValidateConfigError(rawConfig)
            /\ UNCHANGED <<config, sessionHeaders, retryTotal, services>>
       ELSE /\ clientState' = "ready"
            /\ config' = ValidateConfig(rawConfig)
            /\ sessionHeaders' = CreateSessionHeaders(ValidateConfig(rawConfig))
            /\ retryTotal' = ValidateConfig(rawConfig).retries
            /\ services' = ServiceNames
            /\ UNCHANGED ctorError
    /\ UNCHANGED <<rawConfig, pc, call, iter, fullUrl, sent, remaining, history,
                   locals, result, lastMutation>>

------------------------------------------------------------------------------
(* Callers *)

Threads == {"t1", "t2"}

NoCall == [op |-> "none", method |-> None, url |-> <<>>, headers |-> EmptyDict,
           files |-> FALSE, token |-> None]

NoIter == [pos |-> 0, len |-> 0, dirty |-> FALSE, items |-> <<>>]

NoResponse == [status |-> 0, retry_after |-> FALSE, request_id |-> None, body |-> None]

\* No error payload: nothing was passed to create_error_from_response.
NoPayload == [message |-> None]

NoResult == [outcome |-> "none", error |-> None, status |-> 0, request_id |-> None,
             payload |-> NoPayload, message |-> None, response |-> NoResponse]

\* A method may start when the caller holds a constructed client and is in no method.
CanStart(t) == clientState = "ready" /\ pc[t] \in {"idle", "done"}

------------------------------------------------------------------------------
(* request(): lines 138-148, the per-call header set *)

\* Lines 140-148: request_headers.
RequestHeaders(headers, files) ==
    LET updated == IF headers # EmptyDict THEN DictUpdate(EmptyDict, headers)
                   ELSE EmptyDict
    IN IF files /\ "Content-Type" \in DOMAIN updated
       THEN DictDel(updated, "Content-Type")
       ELSE updated

\* The url argument of the calls that are not about the URL.
DocumentsPath == <<"/", "v1", "/", "documents">>

\* A request() that works on the caller's mapping itself (request_headers =
\* headers) and so deletes Content-Type from it.
CallerHeadersAliased(headers, files) == RequestHeaders(headers, files)

\* Lines 140-148 as the caller sees them: request_headers is a dict of its
\* own, the mapping passed in is read and never written.
CallerHeaders(headers, files) == headers

\* The convenience wrappers and upload_file delegate to request().
RequestArgs(method, headers, files) ==
    [op |-> "request", method |-> method, url |-> DocumentsPath, headers |-> headers,
     files |-> files, token |-> None]

\* get(url)
GetArgs(url) == [RequestArgs("GET", EmptyDict, FALSE) EXCEPT !.url = url]

\* Line 138: full_url
FullUrl(base_url, url) == RStrip(base_url) \o <<"/">> \o LStrip(url)

UploadFileArgs == RequestArgs("POST", EmptyDict, TRUE)

\* A merge in which the session's value wins over the call's.
MergeSettingSessionWins(reqHeaders, items) ==
    LET base == [k \in {items[i].key : i \in 1..Len(items)} |->
                    items[CHOOSE i \in 1..Len(items) : items[i].key = k].value]
        lowered == [k \in {Lower(n) : n \in DOMAIN reqHeaders} |->
                    reqHeaders[CHOOSE n \in DOMAIN reqHeaders : Lower(n) = k]]
        merged == DictUpdate(lowered, base)
    IN [k \in {x \in DOMAIN merged : merged[x] # None} |-> merged[k]]

(* requests.sessions.merge_setting(request.headers, session.headers,        *)
(* CaseInsensitiveDict): the session's entries, updated with the call's,    *)
(* minus the keys whose value is None.  `items` is list(session.headers     *)
(* .items()), the snapshot the iteration produced.                          *)
MergeSetting(reqHeaders, items) ==
    LET base == [k \in {items[i].key : i \in 1..Len(items)} |->
                    items[CHOOSE i \in 1..Len(items) : items[i].key = k].value]
        lowered == [k \in {Lower(n) : n \in DOMAIN reqHeaders} |->
                    reqHeaders[CHOOSE n \in DOMAIN reqHeaders : Lower(n) = k]]
        merged == DictUpdate(base, lowered)
    IN [k \in {x \in DOMAIN merged : merged[x] # None} |-> merged[k]]

Multipart == "multipart/form-data; boundary=..."

\* PreparedRequest.prepare_body: a files payload sets the multipart content
\* type only when the merged headers have no content-type yet.
PrepareBody(headers, files) ==
    IF files /\ "content-type" \notin DOMAIN headers
    THEN DictUpdate(headers, ("content-type" :> Multipart))
    ELSE headers

\* The header set the transport sends for a call.
EffectiveHeaders(reqHeaders, items, files) ==
    PrepareBody(MergeSetting(reqHeaders, items), files)

\* Lines 138-148, up to the point in session.request where merge_setting
\* starts to iterate session.headers.  The lines before it touch nothing a
\* mutation writes, so they are taken as one step with the iterator's creation.
RequestBegin(t, args) ==
    /\ CanStart(t)
    /\ pc' = [pc EXCEPT ![t] = "merge"]
    /\ call' = [call EXCEPT ![t] = args]
    /\ fullUrl' = [fullUrl EXCEPT ![t] = FullUrl(config.base_url.text, args.url)]
    /\ iter' = [iter EXCEPT ![t] = [pos |-> 0, len |-> Len(sessionHeaders),
                                    dirty |-> FALSE, items |-> <<>>]]
    /\ sent' = [sent EXCEPT ![t] = EmptyDict]
    /\ remaining' = [remaining EXCEPT ![t] = 0]
    /\ history' = [history EXCEPT ![t] = <<>>]
    /\ response' = [response EXCEPT ![t] = NoResponse]
    /\ transportError' = [transportError EXCEPT ![t] = None]
    /\ result' = [result EXCEPT ![t] = NoResult]
    /\ UNCHANGED <<clientVars, lastMutation>>

\* A raw, untranslated exception leaves request().
RaiseRaw(t, err) ==
    /\ pc' = [pc EXCEPT ![t] = "done"]
    /\ result' = [result EXCEPT ![t] = [NoResult EXCEPT !.outcome = "raised",
                                                        !.error = err]]

\* The exceptions a mutated iteration can end in: the OrderedDict iterator
\* raises RuntimeError; a key deleted between its yield and its lookup is a
\* KeyError.
IterationErrors(t) ==
    IF Len(sessionHeaders) < iter[t].len /\ iter[t].pos = iter[t].len - 1
    THEN {"RuntimeError", "KeyError"}
    ELSE {"RuntimeError"}

\* One step of list(session.headers.items()) inside merge_setting.
MergeStep(t) ==
    /\ pc[t] = "merge"
    /\ iter[t].pos < iter[t].len
    /\ IF iter[t].dirty
       THEN /\ \E err \in IterationErrors(t) : RaiseRaw(t, err)
            /\ UNCHANGED <<iter, sent, remaining, history>>
       ELSE /\ iter' = [iter EXCEPT ![t].pos = @ + 1,
                                    ![t].items = Append(@, sessionHeaders[iter[t].pos + 1])]
            /\ UNCHANGED <<pc, result, sent, remaining, history>>
    /\ UNCHANGED <<clientVars, call, fullUrl, locals, lastMutation>>

\* The iteration is over: the request is prepared and handed to the adapter
\* with a fresh copy of the retry budget.
Dispatch(t) ==
    /\ pc[t] = "merge"
    /\ iter[t].pos = iter[t].len
    /\ pc' = [pc EXCEPT ![t] = "send"]
    /\ sent' = [sent EXCEPT ![t] =
                  EffectiveHeaders(RequestHeaders(call[t].headers, call[t].files),
                                   iter[t].items, call[t].files)]
    /\ remaining' = [remaining EXCEPT ![t] = retryTotal]
    /\ iter' = [iter EXCEPT ![t] = NoIter]
    /\ call' = [call EXCEPT ![t].headers = CallerHeaders(@, call[t].files)]
    /\ UNCHANGED <<clientVars, fullUrl, history, locals, result, lastMutation>>

------------------------------------------------------------------------------
(* The transport session: HTTPAdapter with the Retry policy of lines 95-100 *)

StatusForcelist == {429, 500, 502, 503, 504}

AllowedMethods == {"HEAD", "GET", "PUT", "DELETE", "OPTIONS", "TRACE", "POST"}

\* urllib3 Retry.RETRY_AFTER_STATUS_CODES
RetryAfterStatusCodes == {413, 429, 503}

\* A retry test that does not look at the method.
IsRetryAnyMethod(method, status, hasRetryAfter, total) ==
    \/ status \in StatusForcelist
    \/ (total # 0 /\ hasRetryAfter /\ status \in RetryAfterStatusCodes)

\* Retry.is_retry(method, status_code, has_retry_after)
IsRetry(method, status, hasRetryAfter, total) ==
    /\ method \in AllowedMethods
    /\ \/ status \in StatusForcelist
       \/ (total # 0 /\ hasRetryAfter /\ status \in RetryAfterStatusCodes)

\* An exhaustion test that is off by one.
IsExhaustedEarly(total) == total <= 0

\* An exhaustion test that allows one retry too many.
IsExhaustedLate(total) == total < -1

\* Retry.is_exhausted() after Retry.increment() took one from `total`.
IsExhausted(total) == total < 0

NoException == [max_retry |-> FALSE, reason |-> None]

MaxRetryError(reason) == [max_retry |-> TRUE, reason |-> reason]

Urllib3Error(reason) == [max_retry |-> FALSE, reason |-> reason]

(* One pass of HTTPConnectionPool.urlopen for an attempt that ended in      *)
(* `o`: retry, deliver the response, or raise.  Retry is built with the     *)
(* default raise_on_status=True, so an exhausted status retry raises        *)
(* MaxRetryError(ResponseError) instead of returning the response.          *)
Urlopen(method, total, o) ==
    CASE o.kind = "response" ->
           IF IsRetry(method, o.status, o.retry_after, total)
           THEN IF IsExhausted(total - 1)
                THEN [act |-> "raise", exc |-> MaxRetryError("ResponseError")]
                ELSE [act |-> "retry", exc |-> NoException]
           ELSE [act |-> "deliver", exc |-> NoException]
      [] o.kind \in {"ConnectTimeoutError", "NewConnectionError"} ->
           \* connection errors are retried whatever the method
           IF IsExhausted(total - 1)
           THEN [act |-> "raise", exc |-> MaxRetryError(o.kind)]
           ELSE [act |-> "retry", exc |-> NoException]
      [] o.kind \in {"ReadTimeoutError", "ProtocolError"} ->
           \* read errors are retried only for the allowed methods
           IF method \notin AllowedMethods
           THEN [act |-> "raise", exc |-> Urllib3Error(o.kind)]
           ELSE IF IsExhausted(total - 1)
           THEN [act |-> "raise", exc |-> MaxRetryError(o.kind)]
           ELSE [act |-> "retry", exc |-> NoException]

\* HTTPAdapter.send: the requests exception for a urllib3 exception.
AdapterException(exc) ==
    IF exc.max_retry
    THEN CASE exc.reason = "ConnectTimeoutError" -> "ConnectTimeout"
           [] exc.reason = "ResponseError" -> "RetryError"
           [] OTHER -> "ConnectionError"
    ELSE CASE exc.reason = "ReadTimeoutError" -> "ReadTimeout"
           [] OTHER -> "ConnectionError"

\* The requests exception hierarchy, as the except clauses of request() see it.
IsTimeout(e) == e \in {"ConnectTimeout", "ReadTimeout"}

IsConnectionError(e) == e \in {"ConnectTimeout", "ConnectionError"}

IsRequestException(e) ==
    e \in {"ConnectTimeout", "ReadTimeout", "ConnectionError", "RetryError"}

------------------------------------------------------------------------------
(* request(): lines 163-183, the outcome *)

\* A success test that accepts 200 alone.
ResponseOkOnly200(status) == status = 200

\* A success test that lets 4xx through.
ResponseOkBelow500(status) == status < 500

\* Response.ok: raise_for_status() raises only for 400 <= status < 600.
ResponseOk(status) == ~(400 <= status /\ status < 600)

JsonBody == "{\"message\":\"not found\"}"

\* response.json() succeeds.
IsJson(body) == body = JsonBody

\* Lines 166-169: the message of error_data.
ErrorMessage(body) ==
    IF IsJson(body) THEN "not found"
    ELSE IF body # "" THEN body ELSE "Unknown error"

\* response.json() of a body that parses.
JsonValue(body) == [message |-> "not found"]

\* An error payload that keeps an empty body text as the message.
ErrorDataRawText(body) ==
    IF IsJson(body) THEN JsonValue(body) ELSE [message |-> body]

\* Lines 166-169: error_data.
ErrorData(body) ==
    IF IsJson(body) THEN JsonValue(body)
    ELSE [message |-> IF body # "" THEN body ELSE "Unknown error"]

\* exceptions.create_error_from_response: the kind of typed error for a status.
ErrorKind(status) ==
    CASE status = 401 -> "AuthenticationError"
      [] status = 403 -> "AuthorizationError"
      [] status \in {400, 422} -> "ValidationError"
      [] status = 404 -> "NotFoundError"
      [] status = 409 -> "ConflictError"
      [] status = 429 -> "RateLimitError"
      [] status >= 500 /\ status < 600 -> "ServerError"
      [] OTHER -> "DocuSignAlternativeError"

\* Lines 163-173: what request() does with the response the session delivered.
HandleResponse(r) ==
    IF ~ResponseOk(r.status)
    THEN [outcome |-> "raised", error |-> ErrorKind(r.status), status |-> r.status,
          request_id |-> r.request_id, payload |-> ErrorData(r.body),
          message |-> ErrorMessage(r.body), response |-> NoResponse]
    ELSE [outcome |-> "returned", error |-> None, status |-> 0, request_id |-> None,
          payload |-> NoPayload, message |-> None, response |-> r]

\* Lines 175-183: the except clauses, in order.
HandleException(e) ==
    [NoResult EXCEPT
       !.outcome = "raised",
       !.error = IF IsTimeout(e) THEN "TimeoutError"
                 ELSE IF IsConnectionError(e) THEN "NetworkError"
                 ELSE IF IsRequestException(e) THEN "NetworkError"
                 ELSE e,
       !.message = IF IsTimeout(e) THEN "Request timeout"
                   ELSE IF IsConnectionError(e) THEN "Network error: " \o e
                   ELSE IF IsRequestException(e) THEN "Request error: " \o e
                   ELSE None]

\* What an attempt ended in, as far as the retry policy looks at it.
HistoryEntry(o) == [kind |-> o.kind, status |-> o.status, retry_after |-> o.retry_after]

ResponseOf(o) ==
    [status |-> o.status, retry_after |-> o.retry_after, request_id |-> o.request_id,
     body |-> o.body]

\* One transport attempt of a dispatched request ends in `o`.
Attempt(t, o) ==
    /\ pc[t] = "send"
    /\ history' = [history EXCEPT ![t] = Append(@, HistoryEntry(o))]
    /\ LET step == Urlopen(call[t].method, remaining[t], o)
       IN CASE step.act = "retry" ->
                 /\ remaining' = [remaining EXCEPT ![t] = @ - 1]
                 /\ UNCHANGED <<pc, locals, result>>
            [] step.act = "deliver" ->
                 /\ pc' = [pc EXCEPT ![t] = "done"]
                 /\ response' = [response EXCEPT ![t] = ResponseOf(o)]
                 /\ result' = [result EXCEPT ![t] = HandleResponse(ResponseOf(o))]
                 /\ UNCHANGED <<remaining, transportError>>
            [] step.act = "raise" ->
                 /\ pc' = [pc EXCEPT ![t] = "done"]
                 /\ transportError' = [transportError EXCEPT ![t] =
                                         AdapterException(step.exc)]
                 /\ result' = [result EXCEPT ![t] =
                                 HandleException(AdapterException(step.exc))]
                 /\ UNCHANGED <<remaining, response>>
    /\ UNCHANGED <<clientVars, call, iter, fullUrl, sent, lastMutation>>

------------------------------------------------------------------------------
(* set_auth_token and clear_auth: lines 232-241 *)

MutationArgs(op, token) ==
    [op |-> op, method |-> None, url |-> <<>>, headers |-> EmptyDict,
     files |-> FALSE, token |-> token]

\* An iterator over session.headers notices a key added or removed.
Invalidate(it, p) ==
    [t \in Threads |-> IF p[t] = "merge" THEN [it[t] EXCEPT !.dirty = TRUE] ELSE it[t]]

Finish(t) ==
    /\ pc' = [pc EXCEPT ![t] = "done"]
    /\ result' = [result EXCEPT ![t] = [NoResult EXCEPT !.outcome = "returned"]]
    /\ lastMutation' = [op |-> call[t].op, token |-> call[t].token]

\* Line 234
SetAuthTokenConfig(t, token) ==
    /\ CanStart(t)
    /\ call' = [call EXCEPT ![t] = MutationArgs("set_auth_token", token)]
    /\ config' = [config EXCEPT !.api_key = token]
    /\ pc' = [pc EXCEPT ![t] = "set_header"]
    /\ result' = [result EXCEPT ![t] = NoResult]
    /\ history' = [history EXCEPT ![t] = <<>>]
    /\ sent' = [sent EXCEPT ![t] = EmptyDict]
    /\ response' = [response EXCEPT ![t] = NoResponse]
    /\ transportError' = [transportError EXCEPT ![t] = None]
    /\ UNCHANGED <<rawConfig, clientState, ctorError, sessionHeaders, retryTotal,
                   services, iter, fullUrl, remaining, lastMutation>>

\* Line 235
SetAuthTokenHeader(t) ==
    /\ pc[t] = "set_header"
    /\ sessionHeaders' = CISet(sessionHeaders, "Authorization", Bearer(call[t].token))
    /\ iter' = IF CIHas(sessionHeaders, "Authorization") THEN iter
               ELSE Invalidate(iter, pc)
    /\ Finish(t)
    /\ UNCHANGED <<rawConfig, clientState, ctorError, config, retryTotal, services,
                   call, fullUrl, sent, remaining, history, locals>>

\* Line 239
ClearAuthConfig(t) ==
    /\ CanStart(t)
    /\ call' = [call EXCEPT ![t] = MutationArgs("clear_auth", None)]
    /\ config' = [config EXCEPT !.api_key = None]
    /\ pc' = [pc EXCEPT ![t] = "clear_test"]
    /\ result' = [result EXCEPT ![t] = NoResult]
    /\ history' = [history EXCEPT ![t] = <<>>]
    /\ sent' = [sent EXCEPT ![t] = EmptyDict]
    /\ response' = [response EXCEPT ![t] = NoResponse]
    /\ transportError' = [transportError EXCEPT ![t] = None]
    /\ UNCHANGED <<rawConfig, clientState, ctorError, sessionHeaders, retryTotal,
                   services, iter, fullUrl, remaining, lastMutation>>

\* Line 240
ClearAuthTest(t) ==
    /\ pc[t] = "clear_test"
    /\ IF CIHas(sessionHeaders, "Authorization")
       THEN /\ pc' = [pc EXCEPT ![t] = "clear_del"]
            /\ UNCHANGED <<result, lastMutation>>
       ELSE Finish(t)
    /\ UNCHANGED <<clientVars, call, iter, fullUrl, sent, remaining, history, locals>>

\* Line 241
ClearAuthDel(t) ==
    /\ pc[t] = "clear_del"
    /\ IF CIHas(sessionHeaders, "Authorization")
       THEN /\ sessionHeaders' = CIDel(sessionHeaders, "Authorization")
            /\ iter' = Invalidate(iter, pc)
            /\ Finish(t)
       ELSE \* another caller deleted the key after the test of line 240
            /\ RaiseRaw(t, "KeyError")
            /\ lastMutation' = [op |-> call[t].op, token |-> call[t].token]
            /\ UNCHANGED <<sessionHeaders, iter>>
    /\ UNCHANGED <<rawConfig, clientState, ctorError, config, retryTotal, services,
                   call, fullUrl, sent, remaining, history, locals>>

------------------------------------------------------------------------------
(* Inputs *)

\* Credential material handed to __init__.
Credentials ==
    [api_key : {None, "", "k1"}, oauth : {None, "oauth-config"},
     jwt : {NoJwt, Jwt(""), Jwt("j1")}]

ExampleUrl == Url(Https("api.example.com"))

ConfigOf(cred, url, env, n) ==
    [api_key |-> cred.api_key, oauth |-> cred.oauth, jwt |-> cred.jwt,
     base_url |-> url, environment |-> env, retries |-> n]

\* Every credential combination, base URL and environment.
AllConfigs ==
    {ConfigOf(c, u, e, n) :
        c \in Credentials, u \in {NoUrl, Url(<<>>), ExampleUrl},
        e \in {"development", "staging", "production", "sandbox"},
        n \in 0..MaxRetries}

\* Every credential combination, with the base URL given.
CredentialConfigs ==
    {ConfigOf(c, ExampleUrl, "production", n) :
        c \in Credentials, n \in {0, MaxRetries}}

\* One API-key client per retry count.
ApiKeyConfigs ==
    {ConfigOf([api_key |-> "k1", oauth |-> None, jwt |-> NoJwt],
              ExampleUrl, "production", n) : n \in 0..MaxRetries}

\* A client constructed with an API key and one constructed with OAuth only.
SharedConfigs ==
    {ConfigOf([api_key |-> k, oauth |-> "oauth-config", jwt |-> NoJwt],
              ExampleUrl, "production", 0) : k \in {None, "k1"}}

\* Base URLs without a trailing slash: one given, and the defaults.
BaseStems ==
    {ExampleUrl.text, Https("api.example.com") \o <<"/", "api">>}
    \cup {DefaultBaseUrl(e).text : e \in {"development", "staging", "production"}}

\* Relative paths without a leading slash; the empty path is one of them.
PathRests == {<<>>, <<"v1">>, <<"v1", "/", "documents">>, <<"v1", "/", "documents", "/">>}

\* API-key clients whose base URL ends in 0..MaxSlashes slashes, and clients
\* that take the default base URL of their environment.
UrlConfigs ==
    {ConfigOf([api_key |-> "k1", oauth |-> None, jwt |-> NoJwt],
              Url(b \o Slashes(i)), "production", 0) :
        b \in {ExampleUrl.text, Https("api.example.com") \o <<"/", "api">>},
        i \in 0..MaxSlashes}
    \cup {ConfigOf([api_key |-> "k1", oauth |-> None, jwt |-> NoJwt],
                   NoUrl, e, 0) : e \in {"development", "staging", "production"}}

\* GET calls whose path starts with 0..MaxSlashes slashes.
UrlCalls == {GetArgs(Slashes(j) \o r) : j \in 0..MaxSlashes, r \in PathRests}

Tokens == {"X", "Y"}

\* Per-call header arguments; EmptyDict stands for headers=None as well.
HeaderArgs ==
    { EmptyDict,
      ("Content-Type" :> "text/plain"),
      ("content-type" :> "text/plain"),
      ("Authorization" :> "Basic own"),
      ("X-Trace" :> "trace-1"),
      ("Accept" :> None) }

\* get, post, put, patch, delete
Methods == {"GET", "POST", "PUT", "PATCH", "DELETE"}

\* Calls that differ in their headers and files payload.
HeaderCalls ==
    {RequestArgs(m, h, f) : m \in {"GET", "POST"}, h \in HeaderArgs, f \in BOOLEAN}
    \cup {UploadFileArgs}

\* Calls that differ in their method.
MethodCalls == {RequestArgs(m, EmptyDict, FALSE) : m \in Methods}

Statuses == {101, 200, 204, 304, 400, 401, 404, 413, 429, 500, 503}

RequestIds == {None, "abc123"}

Bodies == {JsonBody, "oops", ""}

ResponseOutcome(status, ra, rid, body) ==
    [kind |-> "response", status |-> status, retry_after |-> ra,
     request_id |-> rid, body |-> body]

FailureOutcome(kind) ==
    [kind |-> kind, status |-> 0, retry_after |-> FALSE, request_id |-> None,
     body |-> None]

Failures ==
    {FailureOutcome(k) :
        k \in {"ConnectTimeoutError", "ReadTimeoutError", "NewConnectionError",
               "ProtocolError"}}

\* The x-request-id header and the body vary one at a time; a Retry-After
\* header comes with the statuses urllib3 honours it for.
Responses ==
    {ResponseOutcome(s, ra, rid, b) :
        s \in Statuses, ra \in BOOLEAN, rid \in RequestIds, b \in Bodies}

TransportOutcomes ==
    {o \in Responses :
        /\ o.retry_after => (o.status \in RetryAfterStatusCodes
                             /\ o.request_id = None /\ o.body = "")
        /\ o.request_id # None => o.body = JsonBody} \cup Failures

\* A few outcomes, for the runs that are about headers.
FewOutcomes ==
    { ResponseOutcome(200, FALSE, None, JsonBody),
      ResponseOutcome(404, FALSE, "abc123", JsonBody),
      ResponseOutcome(503, FALSE, None, ""),
      FailureOutcome("ConnectTimeoutError") }

------------------------------------------------------------------------------
(* Specifications *)

InitWith(configs) ==
    /\ rawConfig \in configs
    /\ clientState = "new"
    /\ ctorError = None
    /\ config = NoConfig
    /\ sessionHeaders = NoSession
    /\ retryTotal = 0
    /\ services = {}
    /\ pc = [t \in Threads |-> "idle"]
    /\ call = [t \in Threads |-> NoCall]
    /\ iter = [t \in Threads |-> NoIter]
    /\ fullUrl = [t \in Threads |-> <<>>]
    /\ sent = [t \in Threads |-> EmptyDict]
    /\ remaining = [t \in Threads |-> 0]
    /\ history = [t \in Threads |-> <<>>]
    /\ response = [t \in Threads |-> NoResponse]
    /\ transportError = [t \in Threads |-> None]
    /\ result = [t \in Threads |-> NoResult]
    /\ lastMutation = [op |-> "none", token |-> None]

\* request() by the callers in T.
RequestSteps(T, calls, outcomes) ==
    \/ \E t \in T, a \in calls : RequestBegin(t, a)
    \/ \E t \in T : MergeStep(t)
    \/ \E t \in T : Dispatch(t)
    \/ \E t \in T, o \in outcomes : Attempt(t, o)

\* set_auth_token() and clear_auth() by the callers in T.
MutationSteps(T, tokens) ==
    \/ \E t \in T, tok \in tokens : SetAuthTokenConfig(t, tok)
    \/ \E t \in T : SetAuthTokenHeader(t)
    \/ \E t \in T : ClearAuthConfig(t)
    \/ \E t \in T : ClearAuthTest(t)
    \/ \E t \in T : ClearAuthDel(t)

(* Spec: one caller issues requests of every method against a transport     *)
(* that may answer each attempt in any way.                                 *)
Init == InitWith(ApiKeyConfigs)

Next == Construct \/ RequestSteps({"t1"}, MethodCalls, TransportOutcomes)

Spec == Init /\ [][Next]_vars

(* SpecAuth: one caller of a client built from any credential combination   *)
(* issues requests with every header argument and mutates the auth state.   *)
InitAuth == InitWith(CredentialConfigs)

NextAuth ==
    \/ Construct
    \/ RequestSteps({"t1"}, HeaderCalls, FewOutcomes)
    \/ MutationSteps({"t1"}, {"X"})

SpecAuth == InitAuth /\ [][NextAuth]_vars

(* SpecConc: callers on different threads share one client.                 *)
\* The one answer the transport gives in the runs with several callers.
ConcOutcome == ResponseOutcome(200, FALSE, None, JsonBody)

ConcCalls ==
    {RequestArgs("GET", h, FALSE) : h \in {EmptyDict, ("Authorization" :> "Basic own")}}

InitConc == InitWith(SharedConfigs)

NextConc ==
    \/ Construct
    \/ RequestSteps(Threads, ConcCalls, {ConcOutcome})
    \/ MutationSteps(Threads, Tokens)

SpecConc == InitConc /\ [][NextConc]_vars

(* SpecUrl: one caller issues GETs for every path against clients of every  *)
(* base URL.                                                                *)
InitUrl == InitWith(UrlConfigs)

NextUrl ==
    \/ Construct
    \/ RequestSteps({"t1"}, UrlCalls, {ConcOutcome})

SpecUrl == InitUrl /\ [][NextUrl]_vars

(* SpecCtor: construction alone, from every configuration.                  *)
InitCtor == InitWith(AllConfigs)

NextCtor == Construct

SpecCtor == InitCtor /\ [][NextCtor]_vars

------------------------------------------------------------------------------
(* Properties *)

\* Caller t is in, or has finished, a request() call.
InRequest(t) == call[t].op = "request"

RequestDone(t) == InRequest(t) /\ pc[t] = "done"

\* The session delivered a response to request() (line 151 returned).
Delivered(t) == RequestDone(t) /\ response[t] # NoResponse

\* The request of caller t went out: its header set is fixed.
Dispatched(t) == InRequest(t) /\ pc[t] \in {"send", "done"} /\ sent[t] # EmptyDict

Is2xx(status) == 200 <= status /\ status <= 299

\* The first n attempts all ended in a response with the given status.
FirstAllStatus(h, n, status) ==
    \A i \in 1..n : h[i].kind = "response" /\ h[i].status = status

TypedErrors ==
    {"AuthenticationError", "AuthorizationError", "ValidationError", "NotFoundError",
     "ConflictError", "RateLimitError", "ServerError", "DocuSignAlternativeError"}

(* C1: whenever the response the session delivers has a 2xx status,         *)
(* request() returns that very response (status, headers, body) and raises  *)
(* nothing.                                                                 *)
C1_SuccessReturnedUnchanged ==
    \A t \in Threads :
        (Delivered(t) /\ Is2xx(response[t].status)) =>
            /\ result[t].outcome = "returned"
            /\ result[t].error = None
            /\ result[t].response = response[t]

\* A 204 with an x-request-id header, delivered after a retry, is returned.
C1_Witness ==
    \E t \in Threads :
        /\ Delivered(t)
        /\ response[t].status = 204
        /\ response[t].request_id = "abc123"
        /\ Len(history[t]) = 2
        /\ result[t].outcome = "returned"

(* C2 as stated: every response request() returns has a 2xx status, every   *)
(* delivered response outside 200..299 (1xx and 3xx too) raises a typed     *)
(* error.                                                                   *)
C2_OnlySuccessReturned ==
    \A t \in Threads :
        Delivered(t) =>
            IF Is2xx(response[t].status)
            THEN result[t].outcome = "returned"
            ELSE result[t].outcome = "raised" /\ result[t].error \in TypedErrors

(* C2 amended: every delivered response with a status in 400..599 raises    *)
(* exactly one typed error, of the kind the status maps to and carrying the *)
(* status; every response request() returns has a status outside 400..599   *)
(* (1xx, 2xx and 3xx responses are returned).                               *)
C2_ErrorStatusRaises ==
    \A t \in Threads :
        Delivered(t) =>
            IF 400 <= response[t].status /\ response[t].status <= 599
            THEN /\ result[t].outcome = "raised"
                 /\ result[t].error \in TypedErrors
                 /\ result[t].status = response[t].status
                 /\ result[t].response = NoResponse
            ELSE /\ result[t].outcome = "returned"
                 /\ result[t].response = response[t]

\* A PATCH answered 503 is not retried: the 503 is delivered and raises
\* ServerError.
C2_Witness ==
    \E t \in Threads :
        /\ Delivered(t)
        /\ response[t].status = 503
        /\ result[t].outcome = "raised"
        /\ result[t].error = "ServerError"
        /\ result[t].status = 503

\* Every attempt was answered with a status of the forcelist.
AllForcelist(h) ==
    \A i \in 1..Len(h) : h[i].kind = "response" /\ h[i].status \in StatusForcelist

(* C3: when every attempt of a request with a retryable method is answered  *)
(* with a status in {429, 500, 502, 503, 504} and the retry budget          *)
(* (retryCount >= 1) is used up, request() raises the typed error of that   *)
(* status (RateLimitError for 429, ServerError for 5xx) with the status     *)
(* code, not NetworkError or TimeoutError.                                  *)
C3_ExhaustedStatusRaisesTyped ==
    \A t \in Threads :
        ( /\ RequestDone(t)
          /\ call[t].method \in AllowedMethods
          /\ retryTotal >= 1
          /\ Len(history[t]) = retryTotal + 1
          /\ AllForcelist(history[t]) ) =>
            LET last == history[t][Len(history[t])].status
            IN /\ result[t].outcome = "raised"
               /\ result[t].error =
                    (IF last = 429 THEN "RateLimitError" ELSE "ServerError")
               /\ result[t].status = last

\* Every attempt ran into the per-attempt timeout.
AllTimedOut(h) ==
    \A i \in 1..Len(h) : h[i].kind \in {"ConnectTimeoutError", "ReadTimeoutError"}

(* C4: a request whose every attempt exceeds the per-attempt timeout        *)
(* (connect or read), for any retry count, ends in TimeoutError and never   *)
(* in NetworkError.                                                         *)
C4_TimeoutRaisesTimeoutError ==
    \A t \in Threads :
        (RequestDone(t) /\ Len(history[t]) >= 1 /\ AllTimedOut(history[t])) =>
            /\ result[t].outcome = "raised"
            /\ result[t].error = "TimeoutError"

(* C5: a call that carries a files payload is never sent with               *)
(* Content-Type: application/json in its effective header set.              *)
C5_UploadNotJson ==
    \A t \in Threads :
        (Dispatched(t) /\ call[t].files) =>
            ~("content-type" \in DOMAIN sent[t]
              /\ sent[t]["content-type"] = "application/json")

\* The call supplies an Authorization header of its own.
OwnAuthorization(t) == \E n \in DOMAIN call[t].headers : Lower(n) = "authorization"

(* C6: after any sequence of set_auth_token and clear_auth calls, a request *)
(* dispatched next without an Authorization header of its own carries       *)
(* "Bearer X" if the last mutation was set_auth_token(X) and no              *)
(* Authorization header if it was clear_auth(), whatever credential the     *)
(* client was constructed with.                                             *)
C6_NextRequestFollowsLastMutation ==
    \A t \in Threads :
        (Dispatched(t) /\ ~OwnAuthorization(t)) =>
            /\ lastMutation.op = "set_auth_token" =>
                 /\ "authorization" \in DOMAIN sent[t]
                 /\ sent[t]["authorization"] = "Bearer " \o lastMutation.token
            /\ lastMutation.op = "clear_auth" =>
                 "authorization" \notin DOMAIN sent[t]

\* A client constructed with an API key, after clear_auth(), sends a request
\* without Authorization.
C6_Witness ==
    \E t \in Threads :
        /\ Dispatched(t)
        /\ ~OwnAuthorization(t)
        /\ rawConfig.api_key = "k1"
        /\ lastMutation.op = "clear_auth"
        /\ "authorization" \notin DOMAIN sent[t]

(* C7: a GET with retryCount = n whose first n attempts are answered 503    *)
(* and whose attempt n+1 is answered 2xx returns that response; the request *)
(* is still being attempted while only 503s came and no more than n         *)
(* attempts were made, so the attempts number exactly n + 1.                *)
C7_RetryThenSuccess ==
    \A t \in Threads :
        (InRequest(t) /\ call[t].method = "GET" /\ Len(history[t]) >= 1) =>
            LET h == history[t]
                n == retryTotal
            IN /\ (Len(h) <= n /\ FirstAllStatus(h, Len(h), 503)) => pc[t] = "send"
               /\ ( /\ Len(h) = n + 1
                    /\ FirstAllStatus(h, n, 503)
                    /\ h[n + 1].kind = "response"
                    /\ Is2xx(h[n + 1].status) ) =>
                      /\ pc[t] = "done"
                      /\ result[t].outcome = "returned"
                      /\ result[t].response.status = h[n + 1].status

\* retryCount = 2: 503, 503, 200 and the 200 is returned.
C7_Witness ==
    \E t \in Threads :
        /\ RequestDone(t)
        /\ call[t].method = "GET"
        /\ retryTotal = 2
        /\ Len(history[t]) = 3
        /\ FirstAllStatus(history[t], 2, 503)
        /\ history[t][3].status = 200
        /\ result[t].outcome = "returned"

\* None of api_key, oauth, jwt is present in the configuration handed in.
NonePresent ==
    /\ rawConfig.api_key \in {None, ""}
    /\ rawConfig.oauth \in {None, ""}
    /\ rawConfig.jwt = NoJwt

(* C8: constructing a client from a configuration with none of api_key,     *)
(* oauth, jwt raises ConfigurationError; no session is created, no facade   *)
(* is bound, no client results and no network call is ever made.            *)
C8_NoCredentialFails ==
    NonePresent =>
        /\ clientState \in {"new", "failed"}
        /\ clientState = "failed" => ctorError = "ConfigurationError"
        /\ sessionHeaders = NoSession
        /\ services = {}
        /\ \A t \in Threads : pc[t] = "idle" /\ history[t] = <<>> /\ sent[t] = EmptyDict

C8_Witness ==
    /\ NonePresent
    /\ clientState = "failed"
    /\ ctorError = "ConfigurationError"
    /\ sessionHeaders = NoSession

\* A caller fails with an exception of the header iteration or of the delete.
FailedByRace(t) ==
    pc[t] = "done" /\ result[t].outcome = "raised"
    /\ result[t].error \in {"RuntimeError", "KeyError"}

\* The Authorization values a session of this client can hold.
WholeAuthValues ==
    {"Bearer k1", "Bearer j1", "Bearer X", "Bearer Y", "Basic own"}

(* C9: under any interleaving of request() with set_auth_token/clear_auth,  *)
(* each dispatched request carries an Authorization header that is a whole  *)
(* value (old, "Bearer <new>" or absent), and no request fails because a    *)
(* mutation ran while its headers were being assembled.                     *)
C9_NoRequestHurtByMutation ==
    \A t \in Threads :
        InRequest(t) =>
            /\ Dispatched(t) =>
                 ("authorization" \in DOMAIN sent[t] =>
                    sent[t]["authorization"] \in WholeAuthValues)
            /\ ~FailedByRace(t)

\* The number of credential forms present in the configuration handed in.
PresentCount ==
    (IF rawConfig.api_key \in {None, ""} THEN 0 ELSE 1)
    + (IF rawConfig.oauth \in {None, ""} THEN 0 ELSE 1)
    + (IF rawConfig.jwt = NoJwt THEN 0 ELSE 1)

(* C10 as stated: construction succeeds only with exactly one credential    *)
(* form present; zero or more than one fails with ConfigurationError.       *)
C10_ExactlyOneCredential ==
    clientState # "new" =>
        IF PresentCount = 1
        THEN clientState = "ready"
        ELSE clientState = "failed" /\ ctorError = "ConfigurationError"

(* C10 amended: construction fails with ConfigurationError exactly when no  *)
(* credential form is present; with one or more present it succeeds.        *)
C10_AtLeastOneCredential ==
    clientState # "new" =>
        IF PresentCount >= 1
        THEN clientState = "ready" /\ ctorError = None
        ELSE clientState = "failed" /\ ctorError = "ConfigurationError"

\* A client built with an API key and a JWT: the API key is the bearer.
C10_Witness ==
    /\ clientState = "ready"
    /\ rawConfig.api_key = "k1"
    /\ rawConfig.jwt = Jwt("j1")
    /\ CIGet(sessionHeaders, "Authorization") = "Bearer k1"

\* No set_auth_token or clear_auth call is between its first and last line.
NoMutationRunning == \A t \in Threads : pc[t] \notin {"set_header", "clear_test", "clear_del"}

(* C11: once clear_auth() has returned, and until the next set_auth_token,  *)
(* the configuration holds no credential of any form (api_key, jwt and      *)
(* oauth are all absent) and the session has no Authorization header,       *)
(* whatever credential form the client was constructed with.                *)
C11_ClearAuthRemovesEveryCredential ==
    (lastMutation.op = "clear_auth" /\ NoMutationRunning) =>
        /\ config.api_key = None
        /\ config.jwt = NoJwt
        /\ config.oauth = None
        /\ ~CIHas(sessionHeaders, "Authorization")

\* The error payload the claim describes for a body.
ExpectedPayload(body) ==
    CASE body = JsonBody -> [message |-> "not found"]
      [] body = "" -> [message |-> "Unknown error"]
      [] OTHER -> [message |-> body]

\* The typed error of caller t was built from the delivered response: its
\* status, its x-request-id header (None when absent) and its error payload.
BuiltFromResponse(t) ==
    /\ result[t].outcome = "raised"
    /\ result[t].error \in TypedErrors
    /\ result[t].status = response[t].status
    /\ result[t].request_id = response[t].request_id
    /\ result[t].payload = ExpectedPayload(response[t].body)

(* C12 as stated: for every delivered response that is not 2xx (1xx and 3xx *)
(* included) request() raises a typed error built from exactly the status   *)
(* code, the error payload and the request id.                              *)
C12_NonSuccessErrorBuilt ==
    \A t \in Threads :
        (Delivered(t) /\ ~Is2xx(response[t].status)) => BuiltFromResponse(t)

(* C12 amended: for every delivered response with a status in 400..599 the  *)
(* typed error request() raises is built from exactly (status code, error   *)
(* payload, request id): the request id is the x-request-id header value,   *)
(* or None when the header is absent; the payload is the JSON-parsed body,  *)
(* or {message: raw text, or "Unknown error" for an empty text} when the    *)
(* body is not valid JSON.                                                  *)
C12_ErrorBuiltFromResponse ==
    \A t \in Threads :
        (Delivered(t) /\ 400 <= response[t].status /\ response[t].status <= 599) =>
            BuiltFromResponse(t)

\* A 400 with an empty body and no x-request-id header.
C12_Witness ==
    \E t \in Threads :
        /\ Delivered(t)
        /\ response[t].status = 400
        /\ response[t].body = ""
        /\ response[t].request_id = None
        /\ result[t].error = "ValidationError"
        /\ result[t].payload = [message |-> "Unknown error"]
        /\ result[t].request_id = None

(* C13: every request() call makes at most 1 + retryCount transport         *)
(* attempts.  request() hands the call to the session once; each attempt    *)
(* but the first is a retry of the adapter and takes one from its budget,   *)
(* and once request() has ended in a response, a typed error, a timeout or  *)
(* a network failure no further attempt is made.                            *)
C13_AttemptsBounded ==
    \A t \in Threads :
        InRequest(t) =>
            /\ Len(history[t]) <= 1 + retryTotal
            /\ pc[t] = "send" => remaining[t] = retryTotal - Len(history[t])
            /\ pc[t] = "done" => ~(\E o \in TransportOutcomes : ENABLED Attempt(t, o))

\* retryCount = 2 and three failed attempts: the call ends in NetworkError
\* after exactly 1 + 2 attempts.
C13_Witness ==
    \E t \in Threads :
        /\ RequestDone(t)
        /\ retryTotal = 2
        /\ Len(history[t]) = 3
        /\ result[t].outcome = "raised"
        /\ result[t].error = "NetworkError"

\* Attempt i of caller t was followed by another attempt, or is about to be.
ReAttempted(t, i) == i < Len(history[t]) \/ (i = Len(history[t]) /\ pc[t] = "send")

\* The response of attempt i is the one request() received and checked.
HandedToStatusCheck(t, i) ==
    /\ i = Len(history[t])
    /\ Delivered(t)
    /\ response[t].status = history[t][i].status

(* C14 as stated: a response is re-attempted only if its status is in       *)
(* {429, 500, 502, 503, 504} and the method is one of GET, HEAD, PUT,       *)
(* DELETE, OPTIONS, TRACE, POST; a response with any other status, and any  *)
(* response to PATCH, is not re-attempted but handed to the status check    *)
(* of request().                                                            *)
C14_RetryOnlyForcelist ==
    \A t \in Threads :
        InRequest(t) =>
            \A i \in 1..Len(history[t]) :
                history[t][i].kind = "response" =>
                    IF /\ history[t][i].status \in {429, 500, 502, 503, 504}
                       /\ call[t].method \in
                            {"GET", "HEAD", "PUT", "DELETE", "OPTIONS", "TRACE", "POST"}
                    THEN TRUE
                    ELSE ~ReAttempted(t, i) /\ HandedToStatusCheck(t, i)

\* The response of attempt i is one the retry policy re-attempts by its
\* status or by its Retry-After header.
RetryableResponse(t, i) ==
    /\ call[t].method \in {"GET", "HEAD", "PUT", "DELETE", "OPTIONS", "TRACE", "POST"}
    /\ \/ history[t][i].status \in {429, 500, 502, 503, 504}
       \/ history[t][i].retry_after /\ history[t][i].status \in {413, 429, 503}

(* C14 amended: a response is re-attempted only if the method is one of     *)
(* GET, HEAD, PUT, DELETE, OPTIONS, TRACE, POST and either its status is in *)
(* {429, 500, 502, 503, 504} or it is a 413 (429, 503) that carries a       *)
(* Retry-After header; every other response, and every response to PATCH,   *)
(* is not re-attempted and goes to the status check of request(), so a      *)
(* PATCH answered 503 raises ServerError after a single attempt.            *)
C14_RetryOnlyRetryable ==
    \A t \in Threads :
        InRequest(t) =>
            /\ \A i \in 1..Len(history[t]) :
                 history[t][i].kind = "response" =>
                     IF RetryableResponse(t, i)
                     THEN TRUE
                     ELSE ~ReAttempted(t, i) /\ HandedToStatusCheck(t, i)
            /\ ( /\ call[t].method = "PATCH"
                 /\ Len(history[t]) >= 1
                 /\ history[t][1].kind = "response"
                 /\ history[t][1].status = 503 ) =>
                   /\ Len(history[t]) = 1
                   /\ result[t].outcome = "raised"
                   /\ result[t].error = "ServerError"

\* A PATCH with retryCount = 2 answered 503: one attempt, ServerError.
C14_Witness ==
    \E t \in Threads :
        /\ RequestDone(t)
        /\ call[t].method = "PATCH"
        /\ retryTotal = 2
        /\ history[t] = <<[kind |-> "response", status |-> 503, retry_after |-> FALSE]>>
        /\ result[t].error = "ServerError"

\* request() of caller t ended without a response: the session raised.
NoResponseFailure(t) == RequestDone(t) /\ transportError[t] # None

\* The failure of the last attempt of caller t.
LastFailure(t) == history[t][Len(history[t])].kind

(* C15: every transport failure that yields no response is translated to    *)
(* exactly one typed error: TimeoutError when the failure is a timeout      *)
(* (connect timeouts included), NetworkError with the failure description   *)
(* when the connection failed, NetworkError for any other transport         *)
(* failure; nothing else leaves request().                                  *)
C15_TransportFailureTyped ==
    \A t \in Threads :
        NoResponseFailure(t) =>
            /\ result[t].outcome = "raised"
            /\ result[t].error \in {"TimeoutError", "NetworkError"}
            /\ LastFailure(t) \in {"ConnectTimeoutError", "ReadTimeoutError"} =>
                 result[t].error = "TimeoutError"
            /\ LastFailure(t) \in {"NewConnectionError", "ProtocolError"} =>
                 /\ result[t].error = "NetworkError"
                 /\ result[t].message = "Network error: " \o transportError[t]
            /\ LastFailure(t) = "response" => result[t].error = "NetworkError"

\* The last piece of a URL text, or "" for the empty text.
LastPiece(s) == IF s = <<>> THEN "" ELSE s[Len(s)]

FirstPiece(s) == IF s = <<>> THEN "" ELSE s[1]

(* C16: the full URL request() builds is the base URL and the relative path *)
(* joined by exactly one '/': for a base URL that is b followed by any      *)
(* number (zero too) of slashes and a path that is any number (zero too) of *)
(* slashes followed by r, where b does not end and r does not start with a  *)
(* slash, the full URL is b, one '/', r.                                    *)
C16_JoinedByOneSlash ==
    \A t \in Threads :
        (InRequest(t) /\ pc[t] # "idle") =>
            \E b \in BaseStems, r \in PathRests, i \in 0..MaxSlashes, j \in 0..MaxSlashes :
                /\ LastPiece(b) # "/"
                /\ FirstPiece(r) # "/"
                /\ config.base_url.text = b \o Slashes(i)
                /\ call[t].url = Slashes(j) \o r
                /\ fullUrl[t] = b \o <<"/">> \o r

\* A base URL with two trailing slashes and a path with two leading ones.
C16_Witness ==
    \E t \in Threads :
        /\ RequestDone(t)
        /\ config.base_url.text = Https("api.example.com") \o <<"/", "/">>
        /\ call[t].url = <<"/", "/", "v1", "/", "documents">>
        /\ fullUrl[t] = Https("api.example.com") \o <<"/", "v1", "/", "documents">>

\* The header set sent for caller t is the session defaults overlaid with
\* the entries `names` of the call's headers.
Overlaid(t, names) ==
    /\ \A n \in names :
         /\ Lower(n) \in DOMAIN sent[t]
         /\ sent[t][Lower(n)] = call[t].headers[n]
    /\ \A k \in CIKeys(sessionHeaders) \ {Lower(n) : n \in names} :
         /\ k \in DOMAIN sent[t]
         /\ sent[t][k] = CIGet(sessionHeaders, k)
    /\ DOMAIN sent[t] \subseteq CIKeys(sessionHeaders) \cup {Lower(n) : n \in names}
    /\ ~OwnAuthorization(t) =>
         IF CIHas(sessionHeaders, "Authorization")
         THEN /\ "authorization" \in DOMAIN sent[t]
              /\ sent[t]["authorization"] = CIGet(sessionHeaders, "Authorization")
         ELSE "authorization" \notin DOMAIN sent[t]

\* The call's header values are strings, as the signature of request() says.
StringHeaders(t) == \A n \in DOMAIN call[t].headers : call[t].headers[n] # None

CanProceed(t) == ENABLED (MergeStep(t) \/ Dispatch(t) \/ Attempt(t, ConcOutcome))

\* request() of caller t ended in one of the four outcomes of the contract.
ContractOutcome(t) ==
    \/ result[t].outcome = "returned" /\ result[t].response = response[t]
    \/ result[t].outcome = "raised" /\ response[t] # NoResponse
       /\ result[t].error \in TypedErrors
    \/ result[t].outcome = "raised" /\ response[t] = NoResponse
       /\ result[t].error \in {"TimeoutError", "NetworkError"}

(* C18: every request() call ends in exactly one outcome, a returned        *)
(* response, a typed error of the status, a TimeoutError or a NetworkError: *)
(* while it runs it can always take its next step (it never waits for       *)
(* another request or for an auth mutation), it makes no more than          *)
(* 1 + retryCount attempts, and when it has ended it ended in one of the    *)
(* four.                                                                    *)
C18_EndsInContractOutcome ==
    \A t \in Threads :
        InRequest(t) =>
            /\ pc[t] \in {"merge", "send"} => CanProceed(t)
            /\ Len(history[t]) <= 1 + retryTotal
            /\ pc[t] = "done" => ContractOutcome(t)

\* The steps of request() of caller t in the runs with several callers.
RequestStep(t) == MergeStep(t) \/ Dispatch(t) \/ Attempt(t, ConcOutcome)

(* SpecConcFair: SpecConc where every transport attempt ends and a caller   *)
(* that can take a step of request() is scheduled in the end.               *)
SpecConcFair == SpecConc /\ \A t \in Threads : WF_vars(RequestStep(t))

\* Under SpecConcFair every request() call that has started ends.
RequestTerminates ==
    \A t \in Threads : (InRequest(t) /\ pc[t] \in {"merge", "send"}) ~> (pc[t] = "done")

(* C19: whenever no set_auth_token or clear_auth call is mid-execution, the *)
(* stored api_key and the session's Authorization header agree: after       *)
(* mutations the header is "Bearer <api_key>" when api_key is set and       *)
(* absent when api_key is None, also after concurrent set_auth_token and    *)
(* clear_auth calls of different threads have all completed.                *)
C19_ApiKeyAndHeaderAgree ==
    (lastMutation.op # "none" /\ NoMutationRunning) =>
        IF config.api_key = None
        THEN ~CIHas(sessionHeaders, "Authorization")
        ELSE /\ CIHas(sessionHeaders, "Authorization")
             /\ CIGet(sessionHeaders, "Authorization") = "Bearer " \o config.api_key

\* Caller t is inside request(), or takes the step that enters it.
RequestRuns(t) == pc[t] \in {"merge", "send"} \/ pc'[t] = "merge"

\* The step is taken by caller t.
StepOf(t) ==
    pc'[t] # pc[t] \/ iter'[t].pos # iter[t].pos \/ history'[t] # history[t]

\* The step belongs to a set_auth_token or clear_auth call.
MutationStep ==
    \E t \in Threads :
        /\ StepOf(t)
        /\ pc[t] \in {"set_header", "clear_test", "clear_del"}
           \/ pc'[t] \in {"set_header", "clear_test", "clear_del"}

(* C20: no step of request() (get, post, put, patch, delete and upload_file *)
(* are calls of it) changes the caller's headers mapping, the session's     *)
(* default headers or the configuration, whether the call returns or        *)
(* raises and also when files makes it drop Content-Type from its own       *)
(* header set; after construction the session headers and the configuration *)
(* change in steps of set_auth_token and clear_auth only.                   *)
C20_RequestChangesNothing ==
    [][ /\ \A t \in Threads :
             (RequestRuns(t) /\ StepOf(t)) =>
                 /\ pc[t] \in {"merge", "send"} => call'[t] = call[t]
                 /\ sessionHeaders' = sessionHeaders
                 /\ config' = config
        /\ (clientState = "ready"
            /\ (sessionHeaders' # sessionHeaders \/ config' # config)) => MutationStep
      ]_vars

\* A call with files and a Content-Type of its own has ended in an error:
\* the caller's mapping still holds Content-Type, the session its defaults.
C20_Witness ==
    \E t \in Threads :
        /\ RequestDone(t)
        /\ call[t].files
        /\ call[t].headers = ("Content-Type" :> "text/plain")
        /\ result[t].outcome = "raised"
        /\ CIGet(sessionHeaders, "Content-Type") = "application/json"
        /\ config.api_key = rawConfig.api_key

====
